---- MODULE Spec2Model ----
(***************************************************************************)
(* Model of the IRC client engine of pkg/irc (conn.go): the supervisor     *)
(* goroutine Client.run, the receive goroutine Client.recv, the send       *)
(* goroutines Client.send, the per-PING responder goroutines, and the      *)
(* consumer calling Connect, Write, Reconnect and Quit.                    *)
(*                                                                         *)
(* Configuration modelled: no password, no SASL, no HandleNickInUse        *)
(* callback, no CTCP traffic.  The consumer is assumed to drain the        *)
(* ConnectionChanged channel, so connChange never blocks; the Messages     *)
(* and out channels are bounded and block when full.                       *)
(*                                                                         *)
(* The second part models the message log of package storage (the same     *)
(* file): User.LogMessage and User.GetMessages over a bolt bucket per      *)
(* server and target; its behaviours are those of SpecLog.                 *)
(***************************************************************************)
EXTENDS Integers, Sequences, FiniteSets, TLC

\* ------------------------------------------------------------------ bounds
MaxLines == 3          \* lines the server sends in total
MaxLinesQuiet == 4     \* the same, while the consumer only listens
MaxDials == 2          \* dial attempts in total
MaxWrites == 1         \* consumer Write calls
MaxReconnectCalls == 1 \* consumer Reconnect calls
MaxQuitCalls == 1      \* consumer Quit calls
MaxSend == 2           \* send goroutines alive at the same time
OutCap == 2            \* capacity of the out channel
MsgCap == 1            \* capacity of the Messages channel
MaxLog == 3            \* LogMessage calls
MaxCount == 2          \* largest count asked of GetMessages
KeyBase == 2           \* values one byte of a key can take
KeyLen == 3            \* bytes of a key

\* --------------------------------------------------------------- constants
Me == "alice"          \* Config.Nick
Echoed == "alice_"     \* nick the server echoes in 001
Other == "bob"
Token == "tok"

VARIABLES
  runPc,          \* position of Client.run
  recvPc,         \* position of Client.recv
  scanned,        \* c.scan.Bytes(): the raw line last scanned
  cur,            \* msg: the parsed message recv is handling
  sendIdle,       \* number of Client.send goroutines waiting in their select
  sendHeld,       \* the msg of each Client.send goroutine about to write it
  pongs,          \* PING responder goroutines not yet run
  quit,           \* c.quit: "open" or "closed"
  reconnect,      \* c.reconnect: "open" or "closed"
  msgClosed,      \* number of close(c.Messages) executed
  Messages,       \* buffered content of c.Messages
  connected,      \* c.connected
  registered,     \* c.registered
  nick,           \* c.nick
  channels,       \* c.channels
  backoff,        \* attempts counted by c.backoff
  conn,           \* c.conn: "none", "open" or "closed"
  out,            \* buffered content of c.out
  wire,           \* lines written to the current socket
  sendRecv,       \* counter of the c.sendRecv WaitGroup
  lastEvent,      \* the ConnectionState last sent on ConnectionChanged
  failure,        \* "none" or the runtime panic that ended the process
  \* history and budgets
  lineBudget,     \* lines the server sends at most
  lineNo,         \* lines scanned so far
  dials,          \* dial attempts so far
  nWrites, nReconnects, nQuits,
  arrived,        \* scanned lines so far that are non-empty and parse
  consumed,       \* arrival numbers the consumer received from Messages
  enq,            \* lines put on c.out so far
  sent,           \* enqueue numbers of the lines of c.out written to a socket
  joinedBefore,   \* c.channels as it was when the current connection was made
  welcomes,       \* number of 001 handled on the current connection
  starts,         \* send goroutines started on the current connection
  replays,        \* JOIN replays issued on the current connection
  \* the message log of package storage
  db,             \* u.messageLog: bucket key -> [sequence, pairs sorted by key]
  index,          \* u.messageIndex: the document ids indexed
  pending,        \* LogMessage calls whose Batch has returned nil
  stored,         \* the messages committed, in the order of their commits
  nLogs,          \* LogMessage calls so far
  asked,          \* the arguments of the last GetMessages call
  got             \* what that call returned

vars == <<runPc, recvPc, scanned, cur, sendIdle, sendHeld, pongs, quit, reconnect,
          msgClosed, Messages, connected, registered, nick, channels, backoff,
          conn, out, wire, sendRecv, lastEvent, failure, lineBudget,
          lineNo,
          dials, nWrites, nReconnects, nQuits, arrived, consumed, enq, sent,
          joinedBefore, welcomes, starts, replays,
          db, index, pending, stored, nLogs, asked, got>>

Up == failure = "none"

\* ------------------------------------------------------------ wire format
\* A raw line is kept split at the places the grammar splits it:
\*   [ ":" prefix SP ] middle [ SP ":" trailing ]
\* prefix is <<>> or <<nick, user@host>>, middle the space separated words.
RawLine(p, m, t) == [prefix |-> p, middle |-> m, trailing |-> t]

PingLine == RawLine(<<>>, <<"PING">>, Token)
JoinLine(who, ch) == RawLine(<<who, "u@h">>, <<"JOIN", ch>>, "")
PartLine(who, ch) == RawLine(<<who, "u@h">>, <<"PART", ch>>, "")
KickLine(ch, who) == RawLine(<<Other, "u@h">>, <<"KICK", ch, who>>, "bye")
QuitLine(who) == RawLine(<<who, "u@h">>, <<"QUIT">>, "bye")
WelcomeLine == RawLine(<<"irc.example", "">>, <<"001", Echoed>>, "Welcome")
ErrorLine == RawLine(<<>>, <<"ERROR">>, "Closing Link")
BlankLine == RawLine(<<>>, <<>>, "")
BadLine == RawLine(<<"irc.example", "">>, <<>>, "")

ServerLines ==
  { PingLine, WelcomeLine, ErrorLine, BlankLine, BadLine,
    JoinLine(Echoed, "#a"), JoinLine(Echoed, "#b"), JoinLine(Other, "#a"),
    PartLine(Echoed, "#a"), KickLine("#b", Echoed), QuitLine(Echoed) }

Nil == [Sender |-> "", Command |-> "", Params |-> <<>>]

\* bytes.Trim(line, " ") leaves nothing
IsBlank(line) == line.prefix = <<>> /\ line.middle = <<>> /\ line.trailing = ""

ParseMessage(line) ==
  IF line.middle = <<>> THEN Nil
  ELSE [Sender |-> IF line.prefix = <<>> THEN "" ELSE line.prefix[1],
        Command |-> line.middle[1],
        Params |-> Tail(line.middle) \o
                   (IF line.trailing # "" THEN <<line.trailing>> ELSE <<>>)]

LastParam(msg) ==
  IF msg.Params = <<>> THEN "" ELSE msg.Params[Len(msg.Params)]

\* outbound lines are <<verb, argument, ...>>; k is the line's number in the
\* order of the sends on c.out, and 0 for a line written without the queue;
\* gate tells that the line was put on c.out while the client was connected
\* and not registered
Direct(l) == [k |-> 0, line |-> l, gate |-> FALSE]
Queued(n, l, g) == [k |-> n, line |-> l, gate |-> g]
MsgText == <<"m1", "m2", "m3", "m4">>
UserLine(n) == <<"PRIVMSG", "#a", MsgText[n]>>
JoinCmd(chs) == <<"JOIN">> \o chs
IsHandshake(e) == e.k = 0 /\ e.line[1] \in {"NICK", "USER"}
IsPong(e) == e.k = 0 /\ e.line[1] = "PONG"

ConnectionState(c, e) == [Connected |-> c, Error |-> e]

\* ------------------------------------------------------------------- Init
\* the state NewClient leaves
Fresh ==
  /\ runPc = "idle" /\ recvPc = "off"
  /\ scanned = BlankLine /\ cur = Nil
  /\ sendIdle = 0 /\ sendHeld = {}
  /\ pongs = <<>>
  /\ quit = "open" /\ reconnect = "open"
  /\ msgClosed = 0 /\ Messages = <<>>
  /\ connected = FALSE /\ registered = FALSE
  /\ nick = Me /\ channels = <<>> /\ backoff = 0
  /\ conn = "none"
  /\ out = <<>> /\ wire = <<>> /\ sendRecv = 0
  /\ lastEvent = ConnectionState(FALSE, "none") /\ failure = "none"
  /\ lineNo = 0 /\ dials = 0
  /\ nWrites = 0 /\ nReconnects = 0 /\ nQuits = 0
  /\ arrived = 0 /\ consumed = <<>> /\ enq = 0 /\ sent = <<>>
  /\ joinedBefore = <<>>
  /\ welcomes = 0 /\ starts = 0 /\ replays = 0
  /\ db = <<>> /\ index = {} /\ pending = {} /\ stored = <<>> /\ nLogs = 0
  /\ asked = <<>> /\ got = <<>>

Init == Fresh /\ lineBudget = MaxLines

\* ---------------------------------------------------------------- helpers
\* Client.connChange: the event goes onto ConnectionChanged
connChange(c, e) == ConnectionState(c, e)

\* Client.Is: the sender is the client itself
Is(sender) == sender = nick

\* Client.addChannel: the set keeps insertion order and holds no duplicate
addChannel(ch) ==
  IF \E i \in 1..Len(channels) : channels[i] = ch
  THEN channels ELSE Append(channels, ch)

SendTasks == sendIdle + Cardinality(sendHeld)

\* --------------------------------------------------------------- consumer
\* Client.Connect
Connect ==
  /\ Up /\ runPc = "idle"
  /\ lastEvent' = connChange(FALSE, "nil")
  /\ runPc' = "tryConnect"
  /\ UNCHANGED <<recvPc, scanned, cur, sendIdle, sendHeld, pongs, quit,
                 reconnect, msgClosed, Messages, connected, registered, nick,
                 channels, backoff, conn, out, wire, sendRecv, failure,
                 lineBudget, lineNo, dials, nWrites, nReconnects, nQuits,
                 arrived, consumed, enq, sent, joinedBefore, welcomes, starts,
                 replays, db, index, pending, stored, nLogs, asked, got>>

\* Client.Write: blocks while out is full
Write(data) ==
  /\ Len(out) < OutCap
  /\ out' = Append(out, Queued(enq + 1, data, connected /\ ~registered))
  /\ enq' = enq + 1

ConsumerWrite ==
  /\ Up /\ nWrites < MaxWrites
  /\ Write(UserLine(nWrites + 1))
  /\ nWrites' = nWrites + 1
  /\ UNCHANGED <<runPc, recvPc, scanned, cur, sendIdle, sendHeld, pongs, quit,
                 reconnect, msgClosed, Messages, connected, registered, nick,
                 channels, backoff, conn, wire, sendRecv, lastEvent, failure,
                 lineBudget, lineNo, dials, nReconnects, nQuits, arrived,
                 consumed, sent, joinedBefore, welcomes, starts, replays, db,
                 index, pending, stored, nLogs, asked, got>>

\* Client.Reconnect: close(c.reconnect); closing a closed channel panics
Reconnect ==
  IF reconnect = "closed"
  THEN failure' = "close of closed channel: reconnect" /\ UNCHANGED reconnect
  ELSE reconnect' = "closed" /\ UNCHANGED failure

ConsumerReconnect ==
  /\ Up /\ runPc # "idle" /\ nReconnects < MaxReconnectCalls
  /\ Reconnect
  /\ nReconnects' = nReconnects + 1
  /\ UNCHANGED <<runPc, recvPc, scanned, cur, sendIdle, sendHeld, pongs, quit,
                 msgClosed, Messages, connected, registered, nick, channels,
                 backoff, conn, out, wire, sendRecv, lastEvent, lineBudget,
                 lineNo, dials, nWrites, nQuits, arrived, consumed, enq, sent,
                 joinedBefore, welcomes, starts, replays, db, index, pending,
                 stored, nLogs, asked, got>>

\* Client.Quit: enqueues QUIT and signals quit; calling it again is harmless
ConsumerQuit ==
  /\ Up /\ runPc # "idle" /\ nQuits < MaxQuitCalls
  /\ Write(<<"QUIT">>)
  /\ quit' = "closed"
  /\ nQuits' = nQuits + 1
  /\ UNCHANGED <<runPc, recvPc, scanned, cur, sendIdle, sendHeld, pongs,
                 reconnect, msgClosed, Messages, connected, registered, nick,
                 channels, backoff, conn, wire, sendRecv, lastEvent, failure,
                 lineBudget, lineNo, dials, nWrites, nReconnects, arrived,
                 consumed, sent, joinedBefore, welcomes, starts, replays, db,
                 index, pending, stored, nLogs, asked, got>>

\* the consumer takes the next message from Messages
ConsumerRecv ==
  /\ Up /\ Messages # <<>>
  /\ consumed' = Append(consumed, Head(Messages).n)
  /\ Messages' = Tail(Messages)
  /\ UNCHANGED <<runPc, recvPc, scanned, cur, sendIdle, sendHeld, pongs, quit,
                 reconnect, msgClosed, connected, registered, nick, channels,
                 backoff, conn, out, wire, sendRecv, lastEvent, failure,
                 lineBudget, lineNo, dials, nWrites, nReconnects, nQuits,
                 arrived, enq, sent, joinedBefore, welcomes, starts, replays,
                 db, index, pending, stored, nLogs, asked, got>>

\* ------------------------------------------------------------- supervisor
\* Client.register: NICK and USER are written straight to the new socket
register == <<Direct(<<"NICK", nick>>), Direct(<<"USER", Me>>)>>

\* a connect that would start the send goroutine with the dial, ahead of
\* the 001; RegistrationGating has to tell it from connectOk
connectOkSending ==
  /\ conn' = "open"
  /\ connected' = TRUE
  /\ lastEvent' = connChange(TRUE, "nil")
  /\ wire' = register
  /\ sendRecv' = sendRecv + 2
  /\ sendIdle' = sendIdle + 1
  /\ recvPc' = "scan"
  /\ welcomes' = 0 /\ starts' = 1 /\ replays' = 0
  /\ joinedBefore' = channels
  /\ UNCHANGED backoff

\* Client.connect, the dial succeeded
connectOk ==
  /\ conn' = "open"
  /\ connected' = TRUE
  /\ lastEvent' = connChange(TRUE, "nil")
  /\ wire' = register
  /\ sendRecv' = sendRecv + 1
  /\ recvPc' = "scan"
  /\ welcomes' = 0 /\ starts' = 0 /\ replays' = 0
  /\ joinedBefore' = channels
  /\ UNCHANGED <<sendIdle, backoff>>

\* Client.connect returned the dial's error
connectFailed(err) ==
  /\ lastEvent' = connChange(FALSE, err)
  /\ UNCHANGED <<conn, connected, wire, sendRecv, recvPc, welcomes, starts,
                 replays, joinedBefore, sendIdle>>

\* a retry loop that would treat the untrusted-certificate error like any
\* other dial error and try again; CertErrorFatal has to tell it from
\* tryConnect
tryConnectRetriesAll ==
  IF quit = "closed"
  THEN /\ runPc' = "select"
       /\ UNCHANGED <<conn, connected, lastEvent, wire, sendRecv, recvPc,
                      welcomes, starts, replays, joinedBefore, sendIdle,
                      backoff, dials>>
  ELSE /\ dials < MaxDials
       /\ dials' = dials + 1
       /\ \/ connectOk /\ runPc' = "select"
          \/ /\ connectFailed("dial error")
             /\ backoff' = backoff + 1
             /\ runPc' = "tryConnect"
          \/ /\ connectFailed("x509.UnknownAuthorityError")
             /\ backoff' = backoff + 1
             /\ runPc' = "tryConnect"

\* Client.tryConnect: one turn of the retry loop
tryConnect ==
  IF quit = "closed"
  THEN /\ runPc' = "select"
       /\ UNCHANGED <<conn, connected, lastEvent, wire, sendRecv, recvPc,
                      welcomes, starts, replays, joinedBefore, sendIdle,
                      backoff, dials>>
  ELSE /\ dials < MaxDials
       /\ dials' = dials + 1
       /\ \/ connectOk /\ runPc' = "select"
          \/ /\ connectFailed("dial error")
             /\ backoff' = backoff + 1
             /\ runPc' = "tryConnect"
          \/ /\ connectFailed("x509.UnknownAuthorityError")
             /\ runPc' = "select"
             /\ UNCHANGED backoff

RunTryConnect ==
  /\ Up /\ runPc = "tryConnect"
  /\ tryConnect
  /\ UNCHANGED <<scanned, cur, sendHeld, pongs, quit, reconnect, msgClosed,
                 Messages, registered, nick, channels, out, failure,
                 lineBudget, lineNo, nWrites, nReconnects, nQuits, arrived,
                 consumed, enq, sent, db, index, pending, stored, nLogs,
                 asked, got>>

\* Client.run, case <-c.quit: setRegistered(false)
RunSelectQuit ==
  /\ Up /\ runPc = "select" /\ quit = "closed"
  /\ registered' = FALSE
  /\ runPc' = "q_disc"
  /\ UNCHANGED <<recvPc, scanned, cur, sendIdle, sendHeld, pongs, quit,
                 reconnect, msgClosed, Messages, connected, nick, channels,
                 backoff, conn, out, wire, sendRecv, lastEvent, failure,
                 lineBudget, lineNo, dials, nWrites, nReconnects, nQuits,
                 arrived, consumed, enq, sent, joinedBefore, welcomes, starts,
                 replays, db, index, pending, stored, nLogs, asked, got>>

\* Client.run, case <-c.reconnect: setRegistered(false)
RunSelectReconnect ==
  /\ Up /\ runPc = "select" /\ reconnect = "closed"
  /\ registered' = FALSE
  /\ runPc' = "r_disc"
  /\ UNCHANGED <<recvPc, scanned, cur, sendIdle, sendHeld, pongs, quit,
                 reconnect, msgClosed, Messages, connected, nick, channels,
                 backoff, conn, out, wire, sendRecv, lastEvent, failure,
                 lineBudget, lineNo, dials, nWrites, nReconnects, nQuits,
                 arrived, consumed, enq, sent, joinedBefore, welcomes, starts,
                 replays, db, index, pending, stored, nLogs, asked, got>>

\* Client.disconnect
disconnect == connected' = FALSE /\ conn' = "closed"

\* Client.run: if c.Connected() { c.disconnect() }
RunDisconnect ==
  /\ Up /\ runPc \in {"q_disc", "r_disc"}
  /\ IF connected THEN disconnect ELSE UNCHANGED <<connected, conn>>
  /\ runPc' = IF runPc = "q_disc" THEN "q_wait" ELSE "r_wait"
  /\ UNCHANGED <<recvPc, scanned, cur, sendIdle, sendHeld, pongs, quit,
                 reconnect, msgClosed, Messages, registered, nick, channels,
                 backoff, out, wire, sendRecv, lastEvent, failure, lineBudget,
                 lineNo, dials, nWrites, nReconnects, nQuits, arrived,
                 consumed, enq, sent, joinedBefore, welcomes, starts, replays,
                 db, index, pending, stored, nLogs, asked, got>>

\* a supervisor that would close c.Messages without waiting for the tasks;
\* NoSendAfterClose has to tell it from RunQuitClose
RunQuitCloseNoWait ==
  /\ Up /\ runPc = "q_wait"
  /\ IF msgClosed > 0
     THEN failure' = "close of closed channel: Messages" /\ UNCHANGED msgClosed
     ELSE msgClosed' = msgClosed + 1 /\ UNCHANGED failure
  /\ runPc' = "done"
  /\ UNCHANGED <<recvPc, scanned, cur, sendIdle, sendHeld, pongs, quit,
                 reconnect, Messages, connected, registered, nick, channels,
                 backoff, conn, out, wire, sendRecv, lastEvent, lineBudget,
                 lineNo, dials, nWrites, nReconnects, nQuits, arrived,
                 consumed, enq, sent, joinedBefore, welcomes, starts, replays,
                 db, index, pending, stored, nLogs, asked, got>>

\* Client.run, quit: c.sendRecv.Wait(); close(c.Messages); return
RunQuitClose ==
  /\ Up /\ runPc = "q_wait" /\ sendRecv = 0
  /\ IF msgClosed > 0
     THEN failure' = "close of closed channel: Messages" /\ UNCHANGED msgClosed
     ELSE msgClosed' = msgClosed + 1 /\ UNCHANGED failure
  /\ runPc' = "done"
  /\ UNCHANGED <<recvPc, scanned, cur, sendIdle, sendHeld, pongs, quit,
                 reconnect, Messages, connected, registered, nick, channels,
                 backoff, conn, out, wire, sendRecv, lastEvent, lineBudget,
                 lineNo, dials, nWrites, nReconnects, nQuits, arrived,
                 consumed, enq, sent, joinedBefore, welcomes, starts, replays,
                 db, index, pending, stored, nLogs, asked, got>>

\* Client.run, reconnect: c.sendRecv.Wait(); fresh channel; sleep one backoff
RunReconnectFresh ==
  /\ Up /\ runPc = "r_wait" /\ sendRecv = 0
  /\ reconnect' = "open"
  /\ backoff' = backoff + 1
  /\ runPc' = "tryConnect"
  /\ UNCHANGED <<recvPc, scanned, cur, sendIdle, sendHeld, pongs, quit,
                 msgClosed, Messages, connected, registered, nick, channels,
                 conn, out, wire, sendRecv, lastEvent, failure, lineBudget,
                 lineNo, dials, nWrites, nReconnects, nQuits, arrived,
                 consumed, enq, sent, joinedBefore, welcomes, starts, replays,
                 db, index, pending, stored, nLogs, asked, got>>

\* ----------------------------------------------------------- receive task
\* close(c.quit); closing a closed channel panics
closeQuit ==
  IF quit = "closed"
  THEN failure' = "close of closed channel: quit" /\ UNCHANGED quit
  ELSE quit' = "closed" /\ UNCHANGED failure

\* Client.recv: c.scan.Scan() returned a line
RecvScanLine ==
  /\ Up /\ recvPc = "scan" /\ conn = "open" /\ lineNo < lineBudget
  /\ \E l \in ServerLines :
       /\ l = WelcomeLine => SendTasks < MaxSend
       /\ scanned' = l
       /\ arrived' = IF ~IsBlank(l) /\ ParseMessage(l) # Nil
                     THEN arrived + 1 ELSE arrived
  /\ lineNo' = lineNo + 1
  /\ recvPc' = "line"
  /\ UNCHANGED <<runPc, cur, sendIdle, sendHeld, pongs, quit, reconnect,
                 msgClosed, Messages, connected, registered, nick, channels,
                 backoff, conn, out, wire, sendRecv, lastEvent, failure,
                 lineBudget, dials, nWrites, nReconnects, nQuits, consumed,
                 enq, sent, joinedBefore, welcomes, starts, replays, db,
                 index, pending, stored, nLogs, asked, got>>

\* Client.recv: c.scan.Scan() returned false
scanFailed ==
  IF quit = "closed"
  THEN UNCHANGED <<lastEvent, reconnect, failure>>
  ELSE lastEvent' = connChange(FALSE, "nil") /\ Reconnect

\* the socket was closed locally, or the server closed it or the read failed
RecvScanFail ==
  /\ Up /\ recvPc = "scan" /\ conn \in {"open", "closed"}
  /\ scanFailed
  /\ recvPc' = "off"
  /\ sendRecv' = sendRecv - 1
  /\ UNCHANGED <<runPc, scanned, cur, sendIdle, sendHeld, pongs, quit,
                 msgClosed, Messages, connected, registered, nick, channels,
                 backoff, conn, out, wire, lineBudget, lineNo, dials, nWrites,
                 nReconnects, nQuits, arrived, consumed, enq, sent,
                 joinedBefore, welcomes, starts, replays, db, index, pending,
                 stored, nLogs, asked, got>>

\* a PING handler that would put the reply on c.out like any other line;
\* PongBypassesQueue has to tell it from pong
pongQueued(msg) ==
  /\ Write(<<"PONG", LastParam(msg)>>)
  /\ UNCHANGED pongs

\* case PING: go c.write("PONG :" + msg.LastParam()); a goroutine of its own
\* will write the reply, nothing goes onto c.out
pong(msg) ==
  /\ pongs' = Append(pongs, Direct(<<"PONG", LastParam(msg)>>))
  /\ UNCHANGED <<out, enq>>

\* Client.recv: the command switch, up to the point where the message is
\* handed to the rest of the loop
dispatch(msg) ==
  CASE msg.Command = "PING" ->
         /\ pong(msg)
         /\ recvPc' = "deliver"
         /\ UNCHANGED <<channels, nick, registered>>
    [] msg.Command = "JOIN" ->
         /\ channels' = IF Is(msg.Sender) THEN addChannel(msg.Params[1])
                        ELSE channels
         /\ recvPc' = "deliver"
         /\ UNCHANGED <<pongs, nick, registered, out, enq>>
    [] msg.Command = "NICK" ->
         /\ nick' = IF Is(msg.Sender) THEN LastParam(msg) ELSE nick
         /\ recvPc' = "deliver"
         /\ UNCHANGED <<pongs, channels, registered, out, enq>>
    [] msg.Command = "001" ->
         /\ nick' = msg.Params[1]
         /\ registered' = TRUE
         /\ recvPc' = "flush"
         /\ UNCHANGED <<pongs, channels, out, enq>>
    [] msg.Command = "ERROR" ->
         /\ recvPc' = "errSend"
         /\ UNCHANGED <<pongs, channels, nick, registered, out, enq>>
    [] OTHER ->
         /\ recvPc' = "deliver"
         /\ UNCHANGED <<pongs, channels, nick, registered, out, enq>>

\* Client.recv: trim, skip the empty line, parse, dispatch
RecvLine ==
  /\ Up /\ recvPc = "line"
  /\ IF IsBlank(scanned)
     THEN /\ recvPc' = "scan"
          /\ UNCHANGED <<cur, quit, failure, lastEvent, sendRecv, pongs,
                         channels, nick, registered, out, enq>>
     ELSE IF ParseMessage(scanned) = Nil
     THEN /\ closeQuit
          /\ lastEvent' = IF quit = "closed" THEN lastEvent
                          ELSE connChange(FALSE, "ErrBadProtocol")
          /\ recvPc' = "off"
          /\ sendRecv' = sendRecv - 1
          /\ UNCHANGED <<cur, pongs, channels, nick, registered, out, enq>>
     ELSE /\ cur' = [Sender |-> ParseMessage(scanned).Sender,
                     Command |-> ParseMessage(scanned).Command,
                     Params |-> ParseMessage(scanned).Params,
                     n |-> arrived]
          /\ dispatch(ParseMessage(scanned))
          /\ UNCHANGED <<quit, failure, lastEvent, sendRecv>>
  /\ scanned' = BlankLine
  /\ UNCHANGED <<runPc, sendIdle, sendHeld, reconnect, msgClosed, Messages,
                 connected, backoff, conn, wire, lineBudget, lineNo, dials,
                 nWrites, nReconnects, nQuits, arrived, consumed, sent,
                 joinedBefore, welcomes, starts, replays, db, index, pending,
                 stored, nLogs, asked, got>>

\* Client.flushChannels: the joined channels are replayed as one JOIN
flushChannels ==
  IF channels # <<>>
  THEN Write(JoinCmd(channels)) /\ replays' = replays + 1
  ELSE UNCHANGED <<out, enq, replays>>

\* go c.send()
startSend == sendIdle' = sendIdle + 1 /\ starts' = starts + 1

\* a 001 handler that would leave the backoff as it is;
\* WelcomeBeforeDelivery has to tell it from welcome
welcomeKeepsBackoff ==
  /\ flushChannels
  /\ backoff' = backoff
  /\ sendRecv' = sendRecv + 1
  /\ startSend

\* Client.recv, case RPL_WELCOME after the nick and the flag are set
welcome ==
  /\ flushChannels
  /\ backoff' = 0
  /\ sendRecv' = sendRecv + 1
  /\ startSend

RecvFlush ==
  /\ Up /\ recvPc = "flush"
  /\ welcome
  /\ welcomes' = welcomes + 1
  /\ recvPc' = "deliver"
  /\ UNCHANGED <<runPc, scanned, cur, sendHeld, pongs, quit, reconnect,
                 msgClosed, Messages, connected, registered, nick, channels,
                 conn, wire, lastEvent, failure, lineBudget, lineNo, dials,
                 nWrites, nReconnects, nQuits, arrived, consumed, sent,
                 joinedBefore, db, index, pending, stored, nLogs, asked, got>>

\* a hand-over that would overwrite the buffered message instead of waiting
\* for room; InOrderOnce has to tell it from toMessages
toMessagesOverwrite(msg) ==
  IF msgClosed > 0
  THEN failure' = "send on closed channel" /\ UNCHANGED Messages
  ELSE /\ Messages' = <<msg>>
       /\ UNCHANGED failure

\* c.Messages <- msg: blocks while full, panics when closed
toMessages(msg) ==
  IF msgClosed > 0
  THEN failure' = "send on closed channel" /\ UNCHANGED Messages
  ELSE /\ Len(Messages) < MsgCap
       /\ Messages' = Append(Messages, msg)
       /\ UNCHANGED failure

\* Client.recv: the message goes to the consumer
RecvDeliver ==
  /\ Up /\ recvPc = "deliver"
  /\ toMessages(cur)
  /\ cur' = Nil
  /\ recvPc' = "scan"
  /\ UNCHANGED <<runPc, scanned, sendIdle, sendHeld, pongs, quit, reconnect,
                 msgClosed, connected, registered, nick, channels, backoff,
                 conn, out, wire, sendRecv, lastEvent, lineBudget, lineNo,
                 dials, nWrites, nReconnects, nQuits, arrived, consumed, enq,
                 sent, joinedBefore, welcomes, starts, replays, db, index,
                 pending, stored, nLogs, asked, got>>

\* Client.recv, case ERROR: forward, report, then wait out the grace delay
RecvErrorForward ==
  /\ Up /\ recvPc = "errSend"
  /\ toMessages(cur)
  /\ cur' = Nil
  /\ lastEvent' = connChange(FALSE, "nil")
  /\ recvPc' = "errSleep"
  /\ UNCHANGED <<runPc, scanned, sendIdle, sendHeld, pongs, quit, reconnect,
                 msgClosed, connected, registered, nick, channels, backoff,
                 conn, out, wire, sendRecv, lineBudget, lineNo, dials,
                 nWrites, nReconnects, nQuits, arrived, consumed, enq, sent,
                 joinedBefore, welcomes, starts, replays, db, index, pending,
                 stored, nLogs, asked, got>>

\* Client.recv, case ERROR: close(c.quit); return
RecvErrorQuit ==
  /\ Up /\ recvPc = "errSleep"
  /\ closeQuit
  /\ recvPc' = "off"
  /\ sendRecv' = sendRecv - 1
  /\ UNCHANGED <<runPc, scanned, cur, sendIdle, sendHeld, pongs, reconnect,
                 msgClosed, Messages, connected, registered, nick, channels,
                 backoff, conn, out, wire, lastEvent, lineBudget, lineNo,
                 dials, nWrites, nReconnects, nQuits, arrived, consumed, enq,
                 sent, joinedBefore, welcomes, starts, replays, db, index,
                 pending, stored, nLogs, asked, got>>

\* -------------------------------------------------------------- send task
\* Client.send: the select; Go picks any ready case
SendSelect ==
  /\ Up /\ sendIdle > 0
  /\ \/ /\ quit = "closed"
        /\ sendIdle' = sendIdle - 1
        /\ sendRecv' = sendRecv - 1
        /\ UNCHANGED <<out, sendHeld>>
     \/ /\ reconnect = "closed"
        /\ sendIdle' = sendIdle - 1
        /\ sendRecv' = sendRecv - 1
        /\ UNCHANGED <<out, sendHeld>>
     \/ /\ out # <<>>
        /\ sendHeld' = sendHeld \cup {Head(out)}
        /\ out' = Tail(out)
        /\ sendIdle' = sendIdle - 1
        /\ UNCHANGED sendRecv
  /\ UNCHANGED <<runPc, recvPc, scanned, cur, pongs, quit, reconnect,
                 msgClosed, Messages, connected, registered, nick, channels,
                 backoff, conn, wire, lastEvent, failure, lineBudget, lineNo,
                 dials, nWrites, nReconnects, nQuits, arrived, consumed, enq,
                 sent, joinedBefore, welcomes, starts, replays, db, index,
                 pending, stored, nLogs, asked, got>>

\* Client.send: c.conn.Write(msg); a failed write ends the task
SendWrite(msg) ==
  /\ Up /\ msg \in sendHeld
  /\ sendHeld' = sendHeld \ {msg}
  /\ IF conn = "open"
     THEN /\ wire' = Append(wire, [msg EXCEPT !.gate = FALSE])
          /\ sent' = Append(sent, msg.k)
          /\ sendIdle' = sendIdle + 1
          /\ UNCHANGED sendRecv
     ELSE /\ sendRecv' = sendRecv - 1
          /\ UNCHANGED <<wire, sent, sendIdle>>
  /\ UNCHANGED <<runPc, recvPc, scanned, cur, pongs, quit, reconnect,
                 msgClosed, Messages, connected, registered, nick, channels,
                 backoff, conn, out, lastEvent, failure, lineBudget, lineNo,
                 dials, nWrites, nReconnects, nQuits, arrived, consumed, enq,
                 joinedBefore, welcomes, starts, replays, db, index, pending,
                 stored, nLogs, asked, got>>

\* --------------------------------------------------------- PING responder
\* go c.write("PONG :" + token): written straight to the socket in place
\* when the goroutine runs; the error of a closed socket is ignored
PongWrite ==
  /\ Up /\ pongs # <<>>
  /\ wire' = IF conn = "open" THEN Append(wire, Head(pongs)) ELSE wire
  /\ pongs' = Tail(pongs)
  /\ UNCHANGED <<runPc, recvPc, scanned, cur, sendIdle, sendHeld, quit,
                 reconnect, msgClosed, Messages, connected, registered, nick,
                 channels, backoff, conn, out, sendRecv, lastEvent, failure,
                 lineBudget, lineNo, dials, nWrites, nReconnects, nQuits,
                 arrived, consumed, enq, sent, joinedBefore, welcomes, starts,
                 replays, db, index, pending, stored, nLogs, asked, got>>

\* ------------------------------------------------------------------- Next
Next ==
  \/ Connect
  \/ ConsumerWrite
  \/ ConsumerReconnect
  \/ ConsumerQuit
  \/ ConsumerRecv
  \/ RunTryConnect
  \/ RunSelectQuit
  \/ RunSelectReconnect
  \/ RunDisconnect
  \/ RunQuitClose
  \/ RunReconnectFresh
  \/ RecvScanLine
  \/ RecvScanFail
  \/ RecvLine
  \/ RecvFlush
  \/ RecvDeliver
  \/ RecvErrorForward
  \/ RecvErrorQuit
  \/ SendSelect
  \/ \E msg \in sendHeld : SendWrite(msg)
  \/ PongWrite

Spec == Init /\ [][Next]_vars

\* The consumer connects and listens, and calls nothing else: every behaviour
\* of SpecQuiet is one of the client under a longer exchange with the server.
InitQuiet == Fresh /\ lineBudget = MaxLinesQuiet

NextQuiet ==
  \/ Connect
  \/ ConsumerRecv
  \/ RunTryConnect
  \/ RunSelectQuit
  \/ RunSelectReconnect
  \/ RunDisconnect
  \/ RunQuitClose
  \/ RunReconnectFresh
  \/ RecvScanLine
  \/ RecvScanFail
  \/ RecvLine
  \/ RecvFlush
  \/ RecvDeliver
  \/ RecvErrorForward
  \/ RecvErrorQuit
  \/ SendSelect
  \/ \E msg \in sendHeld : SendWrite(msg)
  \/ PongWrite

SpecQuiet == InitQuiet /\ [][NextQuiet]_vars

\* ------------------------------------------------------------ message log
Servers == {"s1", "s2"}
Targets == {"#a", "#b"}

\* bucketKey := server + ":" + to
bucketKey(server, to) == server \o ":" \o to

\* Message{Server, From, To, Content, Time}, the ID still zero
NewMessage(server, from, to, content, now) ==
  [ID |-> 0, Server |-> server, From |-> from, To |-> to,
   Content |-> content, Time |-> now]

ZeroMessage == NewMessage("", "", "", "", 0)

\* Message.Marshal and Message.Unmarshal: the fields in a fixed order
Marshal(m) == <<m.ID, m.Server, m.From, m.To, m.Content, m.Time>>

Unmarshal(v) ==
  [ID |-> v[1], Server |-> v[2], From |-> v[3], To |-> v[4],
   Content |-> v[5], Time |-> v[6]]

RECURSIVE Pow(_, _)
Pow(b, e) == IF e = 0 THEN 1 ELSE b * Pow(b, e - 1)

\* idToBytes: the id as a fixed-length big-endian key
idToBytes(id) ==
  [i \in 1..KeyLen |-> (id \div Pow(KeyBase, KeyLen - i)) % KeyBase]

\* bytes.Compare(a, b) < 0, the order bolt keeps keys in
KeyLess(a, b) ==
  \/ \E i \in 1..Len(a) :
       /\ i <= Len(b)
       /\ a[i] < b[i]
       /\ \A j \in 1..(i - 1) : a[j] = b[j]
  \/ /\ Len(a) < Len(b)
     /\ \A j \in 1..Len(a) : a[j] = b[j]

\* tx.Bucket(bucketMessages).CreateBucketIfNotExists(key)
EmptyBucket == [sequence |-> 0, pairs |-> <<>>]
CreateBucketIfNotExists(key) ==
  IF key \in DOMAIN db THEN db[key] ELSE EmptyBucket

\* a sequence that would hand out the stored value without advancing it once
\* the bucket is in use; IdsIncrease has to tell it from NextSequence
NextSequenceStale(b) == IF b.sequence = 0 THEN 1 ELSE b.sequence

\* Bucket.NextSequence
NextSequence(b) == b.sequence + 1

\* Bucket.Put: the pair takes its place in key order, replacing an equal key
Put(pairs, key, value) ==
  LET before(e) == KeyLess(e.k, key)
      after(e) == KeyLess(key, e.k)
  IN SelectSeq(pairs, before) \o <<[k |-> key, v |-> value]>>
       \o SelectSeq(pairs, after)

\* the function LogMessage hands to Batch, run in one write transaction
logTx(message, key) ==
  LET b == CreateBucketIfNotExists(key)
      id == NextSequence(b)
      m == [message EXCEPT !.ID = id]
      nb == [sequence |-> id, pairs |-> Put(b.pairs, idToBytes(id), Marshal(m))]
  IN /\ db' = [x \in DOMAIN db \cup {key} |-> IF x = key THEN nb ELSE db[x]]
     /\ stored' = Append(stored, m)
     /\ pending' = pending \cup {m}

\* User.LogMessage up to the return of Batch: the transaction commits, or it
\* fails, is rolled back and the error is returned
LogMessage ==
  /\ Up /\ nLogs < MaxLog
  /\ nLogs' = nLogs + 1
  /\ \E server \in Servers, to \in Targets, ok \in BOOLEAN :
       IF ok
       THEN logTx(NewMessage(server, "bob", to, "hi", nLogs + 1),
                  bucketKey(server, to))
       ELSE UNCHANGED <<db, stored, pending>>
  /\ UNCHANGED <<runPc, recvPc, scanned, cur, sendIdle, sendHeld, pongs, quit,
                 reconnect, msgClosed, Messages, connected, registered, nick,
                 channels, backoff, conn, out, wire, sendRecv, lastEvent,
                 failure, lineBudget, lineNo, dials, nWrites, nReconnects,
                 nQuits, arrived, consumed, enq, sent, joinedBefore, welcomes,
                 starts, replays, index, asked, got>>

\* User.LogMessage, the last line: u.messageIndex.Index(bucketKey:ID, message)
LogIndex ==
  /\ Up
  /\ \E m \in pending :
       /\ pending' = pending \ {m}
       /\ index' = index \cup {<<bucketKey(m.Server, m.To), m.ID>>}
  /\ UNCHANGED <<runPc, recvPc, scanned, cur, sendIdle, sendHeld, pongs, quit,
                 reconnect, msgClosed, Messages, connected, registered, nick,
                 channels, backoff, conn, out, wire, sendRecv, lastEvent,
                 failure, lineBudget, lineNo, dials, nWrites, nReconnects,
                 nQuits, arrived, consumed, enq, sent, joinedBefore, welcomes,
                 starts, replays, db, stored, nLogs, asked, got>>

\* a seek that would start from the end of the bucket whatever the key, as
\* GetLastMessages does; OlderMessages has to tell it from Seek
SeekLast(pairs, key) == Len(pairs) + 1

\* Cursor.Seek: on the first pair whose key is not below the one sought, or
\* past the last pair
Seek(pairs, key) ==
  IF \E i \in 1..Len(pairs) : ~KeyLess(pairs[i].k, key)
  THEN CHOOSE i \in 1..Len(pairs) :
         /\ ~KeyLess(pairs[i].k, key)
         /\ \A j \in 1..(i - 1) : KeyLess(pairs[j].k, key)
  ELSE Len(pairs) + 1

\* Cursor.Prev: one pair back; 0 stands for the nil key before the first
Prev(pos) == IF pos > 1 THEN pos - 1 ELSE 0

\* the for loop of GetMessages; pos is where the last c.Prev() left the cursor
RECURSIVE walk(_, _, _, _)
walk(pairs, pos, count, messages) ==
  IF count > 0 /\ pos # 0
  THEN walk(pairs, Prev(pos), count - 1,
            [messages EXCEPT ![count] = Unmarshal(pairs[pos].v)])
  ELSE [count |-> count, messages |-> messages]

\* User.GetMessages
GetMessages(server, channel, count, fromID) ==
  LET messages == [i \in 1..count |-> ZeroMessage]
      key == bucketKey(server, channel)
      r == IF key \notin DOMAIN db
           THEN [count |-> count, messages |-> messages]
           ELSE walk(db[key].pairs,
                     Prev(Seek(db[key].pairs, idToBytes(fromID))),
                     count, messages)
  IN IF r.count = 0 THEN r.messages
     ELSE IF r.count < Len(r.messages)
     THEN SubSeq(r.messages, r.count + 1, Len(r.messages))
     ELSE <<>>

\* a caller asks for messages
GetMessagesCall ==
  /\ Up
  /\ \E server \in Servers, channel \in Targets,
        count \in 0..MaxCount, fromID \in 0..(MaxLog + 1) :
       /\ asked' = <<server, channel, count, fromID>>
       /\ got' = GetMessages(server, channel, count, fromID)
  /\ UNCHANGED <<runPc, recvPc, scanned, cur, sendIdle, sendHeld, pongs, quit,
                 reconnect, msgClosed, Messages, connected, registered, nick,
                 channels, backoff, conn, out, wire, sendRecv, lastEvent,
                 failure, lineBudget, lineNo, dials, nWrites, nReconnects,
                 nQuits, arrived, consumed, enq, sent, joinedBefore, welcomes,
                 starts, replays, db, index, pending, stored, nLogs>>

NextLog ==
  \/ LogMessage
  \/ LogIndex
  \/ GetMessagesCall

SpecLog == Init /\ [][NextLog]_vars

\* ----------------------------------------------------------------- claims
\* C1: registration gating.  On every connection, the first and each one
\* made after a reconnect, as long as no 001 has been handled on it no send
\* goroutine exists and the socket has carried nothing but the handshake
\* lines and PONG replies: no line of the outbound queue has been written.
RegistrationGating ==
  welcomes = 0 =>
    /\ SendTasks = 0
    /\ \A i \in 1..Len(wire) : IsHandshake(wire[i]) \/ IsPong(wire[i])

\* the case of C1: a connection made after an earlier one had joined a
\* channel, no 001 yet, a line waiting on c.out and a PONG on the socket
RegistrationGatingCase ==
  /\ welcomes = 0 /\ conn = "open" /\ connected
  /\ joinedBefore # <<>>
  /\ out # <<>>
  /\ \E i \in 1..Len(wire) : IsPong(wire[i])

\* C2: a line put on c.out by Write while the client was connected and not
\* registered is not dropped: it leaves the queue only into the hand of a send
\* goroutine, and leaves that hand only by being written to the socket,
\* after every line enqueued before it that was written.
GatedLinesWritten ==
  [][ /\ \A i \in 1..Len(out) :
           (out[i].gate /\ out[i].line[1] = "PRIVMSG") =>
             \/ \E j \in 1..Len(out') : out'[j] = out[i]
             \/ out[i] \in sendHeld'
      /\ \A m \in sendHeld \ sendHeld' :
           (m.gate /\ m.line[1] = "PRIVMSG") =>
             /\ wire' = Append(wire, [m EXCEPT !.gate = FALSE])
             /\ \A i \in 1..Len(sent) : sent[i] < m.k ]_vars

TeardownIdempotent ==
  /\ failure \notin {"close of closed channel: quit",
                     "close of closed channel: Messages"}
  /\ msgClosed <= 1
  /\ runPc = "done" => msgClosed = 1

\* C5: the reconnect signal is idempotent within one generation: triggering
\* it again before the supervisor has installed the fresh channel is no
\* failure.
ReconnectIdempotent ==
  failure # "close of closed channel: reconnect"

\* C6: when a 001 is about to be delivered to the consumer, the nick is the
\* first parameter of the 001, registered has been set (and is still set
\* unless the supervisor has begun a teardown since), the backoff is at its
\* initial delay and a send goroutine has been started for this 001.
WelcomeBeforeDelivery ==
  (recvPc = "deliver" /\ cur.Command = "001") =>
    /\ nick = cur.Params[1]
    /\ registered \/ runPc \in {"q_disc", "q_wait", "r_disc", "r_wait"}
    /\ backoff = 0
    /\ welcomes >= 1 /\ starts = welcomes

\* the case of C6: a 001 about to be delivered on the second dial, its
\* echoed nick differing from the configured one, the send goroutine alive
WelcomeBeforeDeliveryCase ==
  /\ recvPc = "deliver" /\ cur.Command = "001"
  /\ dials = 2 /\ nick = Echoed /\ nick # Me
  /\ registered /\ SendTasks >= 1

\* C7: channel replay.  On a connection made while channels were joined,
\* once a 001 has been handled the JOIN replay has been issued exactly once.
ReplayOncePerReconnect ==
  (joinedBefore # <<>> /\ welcomes >= 1) => replays = 1

\* C8: channel tracking.  When a message is about to be delivered, the
\* channel set reflects it: after the client's own JOIN the channel is in
\* the set; after its own PART, or a KICK of the client, the channel is not
\* in the set; after its own QUIT the set is empty.
ChannelTracking ==
  recvPc = "deliver" =>
    LET joined(ch) == \E i \in 1..Len(channels) : channels[i] = ch
    IN /\ (cur.Command = "JOIN" /\ cur.Sender = nick) => joined(cur.Params[1])
       /\ (cur.Command = "PART" /\ cur.Sender = nick) => ~joined(cur.Params[1])
       /\ (cur.Command = "KICK" /\ cur.Params[2] = nick) => ~joined(cur.Params[1])
       /\ (cur.Command = "QUIT" /\ cur.Sender = nick) => channels = <<>>

\* C9: every PING with token T, before or after registration, hands
\* PONG :T to a responder of its own and puts nothing on c.out; no PONG is
\* ever on c.out or in the hand of a send goroutine; and the responder writes
\* the reply to the open socket whatever c.out holds and whether or not a
\* send goroutine exists.
PongBypassesQueue ==
  /\ [](/\ \A i \in 1..Len(out) : out[i].line[1] # "PONG"
        /\ \A m \in sendHeld : m.line[1] # "PONG")
  /\ [][ /\ ( /\ recvPc = "line" /\ recvPc' # "line"
              /\ ParseMessage(scanned).Command = "PING" )
            => /\ pongs' = Append(pongs,
                      Direct(<<"PONG", LastParam(ParseMessage(scanned))>>))
               /\ out' = out /\ sendHeld' = sendHeld
         /\ ( pongs # <<>> /\ pongs' = Tail(pongs) /\ conn = "open" )
            => /\ wire' = Append(wire, Head(pongs))
               /\ out' = out /\ sendHeld' = sendHeld ]_vars

\* the case of C9: the PONG is the last line written to the socket while a
\* line waits on c.out and no send goroutine exists
PongBypassesQueueCase ==
  /\ wire # <<>> /\ wire[Len(wire)] = Direct(<<"PONG", Token>>)
  /\ out # <<>>
  /\ SendTasks = 0

\* C10: registered implies connected, in every reachable state.
RegisteredImpliesConnected ==
  registered => connected

\* C11: an untrusted-certificate error of a connect attempt is fatal.  The
\* attempt emits the one event ConnectionState{false, that error}, leaves
\* quit unsignalled and the backoff alone, and puts the supervisor into its
\* select; and from there, as long as neither quit nor reconnect is
\* signalled, the supervisor stays in the select and dials no more.
CertErrorFatal ==
  /\ [][ ( /\ dials' = dials + 1
           /\ lastEvent'.Error = "x509.UnknownAuthorityError" )
         => /\ lastEvent' =
                 ConnectionState(FALSE, "x509.UnknownAuthorityError")
            /\ runPc' = "select"
            /\ quit' = quit /\ backoff' = backoff
            /\ ~connected' ]_vars
  /\ [][ ( /\ lastEvent.Error = "x509.UnknownAuthorityError"
           /\ runPc = "select"
           /\ quit = "open" /\ reconnect = "open" )
         => (runPc' = "select" /\ dials' = dials) ]_vars

\* the case of C11: the second dial, made after a transient failure, ended
\* with the certificate error; the supervisor waits and quit is not signalled
CertErrorFatalCase ==
  /\ lastEvent = ConnectionState(FALSE, "x509.UnknownAuthorityError")
  /\ dials = 2 /\ backoff = 1
  /\ runPc = "select" /\ quit = "open"

\* C12: a transient transport error is reported and retried.  A failed dial
\* other than the certificate error emits an event with Connected = FALSE
\* and keeps the supervisor in the retry loop, one backoff later; a failed
\* Scan while quit is not signalled emits ConnectionState{false, nil} and
\* leaves the reconnect signal raised, without failure; and once quit is
\* signalled no dial is made.
TransientRetried ==
  [][ /\ ( dials' = dials + 1 /\ lastEvent'.Error = "dial error" )
         => /\ ~lastEvent'.Connected
            /\ runPc' = "tryConnect"
            /\ backoff' = backoff + 1
      /\ ( recvPc = "scan" /\ recvPc' = "off" /\ quit = "open" )
         => /\ lastEvent' = ConnectionState(FALSE, "nil")
            /\ reconnect' = "closed"
            /\ failure' = "none"
      /\ ( runPc = "r_wait" /\ runPc' # "r_wait" )
         => /\ runPc' = "tryConnect"
            /\ reconnect' = "open"
            /\ backoff' = backoff + 1
      /\ ( quit = "closed" /\ quit' = "closed" ) => dials' = dials ]_vars

\* C13: a non-empty line that does not parse emits
\* ConnectionState{false, ErrBadProtocol} and signals quit without failure,
\* is not delivered to the consumer, and no dial is made afterwards.
ParseFailureFatal ==
  [][ /\ ( /\ recvPc = "line" /\ recvPc' # "line"
           /\ ~IsBlank(scanned) /\ ParseMessage(scanned) = Nil )
         => /\ lastEvent' = ConnectionState(FALSE, "ErrBadProtocol")
            /\ quit' = "closed"
            /\ failure' = "none"
            /\ Messages' = Messages /\ arrived' = arrived
            /\ recvPc' = "off"
      /\ lastEvent.Error = "ErrBadProtocol" => dials' = dials ]_vars

\* C14: a server ERROR is forwarded to the consumer once, then, after the
\* grace delay, quit is signalled without failure; from the moment the ERROR
\* is being handled no dial is made.
ErrorThenQuit ==
  [][ /\ ( recvPc = "errSend" /\ recvPc' # "errSend" )
         => /\ Messages' = Append(Messages, cur)
            /\ recvPc' = "errSleep"
      /\ ( recvPc = "errSleep" /\ recvPc' # "errSleep" )
         => /\ quit' = "closed"
            /\ failure' = "none"
            /\ Messages' = Messages
            /\ recvPc' = "off"
      /\ recvPc \in {"errSend", "errSleep"} => dials' = dials ]_vars

\* C15: every change of the connected flag is reported.  Once the tasks of
\* a connection have exited and the supervisor has closed the transport, the
\* last ConnectionState sent carries the value of the connected flag.
TransitionsReported ==
  ( /\ sendRecv = 0
    /\ runPc \in {"q_wait", "r_wait", "tryConnect", "done"} )
  => lastEvent.Connected = connected

\* C18: at most one receive task and at most one send task.  A connection's
\* receive task is started only when no receive task and no send task of an
\* earlier connection is left, and never is more than one send goroutine
\* alive.
OneTaskEach ==
  /\ [](SendTasks <= 1)
  /\ [][ (conn' = "open" /\ conn # "open")
         => (recvPc = "off" /\ SendTasks = 0 /\ sendRecv = 0) ]_vars

\* C19: teardown never deadlocks.  While quit is signalled and the
\* supervisor has not returned, some step of the client (or the consumer
\* taking a message) is possible; and when the supervisor has returned, both
\* tasks have exited, the transport is not open and Messages is closed.
TeardownCompletes ==
  /\ ( quit = "closed" /\ Up /\ runPc \notin {"idle", "done"} )
     => ENABLED NextQuiet
  /\ runPc = "done"
     => (sendRecv = 0 /\ SendTasks = 0 /\ recvPc = "off"
           /\ conn # "open" /\ msgClosed = 1)

\* C20: nothing is sent on c.Messages after it has been closed.  The send
\* on the closed channel never happens, and once the channel is closed the
\* supervisor has returned and no receive task runs.
NoSendAfterClose ==
  /\ failure # "send on closed channel"
  /\ msgClosed > 0 => (recvPc = "off" /\ runPc = "done" /\ sendRecv = 0)

\* the case of C20: Messages was closed after messages had been delivered on
\* two connections, and the consumer still holds one to take
NoSendAfterCloseCase ==
  /\ msgClosed = 1
  /\ dials = 2 /\ arrived >= 2
  /\ Messages # <<>>

\* C16: ID monotonicity.  For every (server, target), the messages committed
\* for it carry, in the order of their commits, the IDs 1, 2, 3, ...:
\* strictly increasing, unique, starting at 1 and independent of the other
\* buckets; and the bucket holds exactly these records, in that order, each
\* under the key of its ID.
IdsIncrease ==
  \A s \in Servers, t \in Targets :
    LET of(m) == m.Server = s /\ m.To = t
        mine == SelectSeq(stored, of)
        key == bucketKey(s, t)
    IN /\ \A i \in 1..Len(mine) : mine[i].ID = i
       /\ (key \notin DOMAIN db) => mine = <<>>
       /\ (key \in DOMAIN db) =>
            /\ db[key].sequence = Len(mine)
            /\ Len(db[key].pairs) = Len(mine)
            /\ \A i \in 1..Len(mine) :
                 /\ db[key].pairs[i].k = idToBytes(i)
                 /\ Unmarshal(db[key].pairs[i].v) = mine[i]

\* the case of C16: three commits, the first and the third to one bucket and
\* the second to another, while two of the calls are still under way
IdsIncreaseCase ==
  /\ Len(stored) = 3
  /\ stored[1].Server = stored[3].Server /\ stored[1].To = stored[3].To
  /\ stored[2].To # stored[1].To
  /\ stored[2].ID = 1 /\ stored[3].ID = 2
  /\ Cardinality(pending) >= 2

\* C17: GetMessages(server, channel, n, from_id) returns, in ascending ID
\* order, exactly the min(n, k) records of the bucket with the largest IDs
\* below from_id, k being the number of records below from_id; the record
\* with ID from_id is not among them, and an absent bucket gives the empty
\* result.
OlderMessages ==
  [][ (<<asked, got>>' # <<asked, got>>) =>
      LET server == asked'[1]
          channel == asked'[2]
          n == asked'[3]
          fromID == asked'[4]
          older == {i \in 1..Len(stored) :
                      /\ stored[i].Server = server
                      /\ stored[i].To = channel
                      /\ stored[i].ID < fromID}
          k == Cardinality(older)
          chosen == {i \in older :
                       Cardinality({j \in older :
                                      stored[j].ID > stored[i].ID}) < n}
      IN /\ Len(got') = IF n < k THEN n ELSE k
         /\ \A i \in chosen : \E x \in 1..Len(got') : got'[x] = stored[i]
         /\ \A x \in 1..Len(got') : \E i \in chosen : got'[x] = stored[i]
         /\ \A x \in 1..(Len(got') - 1) : got'[x].ID < got'[x + 1].ID
         /\ \A x \in 1..Len(got') : got'[x].ID # fromID
         /\ (bucketKey(server, channel) \notin DOMAIN db) => got' = <<>>
    ]_vars

\* the case of C17: a bucket of three records asked for two records below
\* ID 3, which exists: the records 1 and 2 are returned, in that order
OlderMessagesCase ==
  /\ asked = <<"s1", "#a", 2, 3>>
  /\ bucketKey("s1", "#a") \in DOMAIN db
  /\ Len(db[bucketKey("s1", "#a")].pairs) = 3
  /\ Len(got) = 2 /\ got[1].ID = 1 /\ got[2].ID = 2

====
